---- MODULE Spec2Model ----
(***************************************************************************)
(* Flow Builder: the graph <-> Amazon States Language converter            *)
(* (frontend/app/utils/aslConverter.ts) and the editing session that       *)
(* calls it (frontend/app/page.tsx).                                       *)
(*                                                                         *)
(* JavaScript objects are modelled as TLA+ records whose DOMAIN is the set *)
(* of keys that are present: `delete o.End` removes "End" from the domain, *)
(* `o.Next = v` adds "Next".  An object used as an ordered map (the States *)
(* of a definition) is a sequence of [name, state] entries in insertion    *)
(* order, which is the order Object.entries enumerates.                    *)
(***************************************************************************)
EXTENDS Integers, Sequences, FiniteSets, TLC

VARIABLES
  nodes,        \* useNodesState: the session's node sequence
  edges,        \* useEdgesState: the session's edge sequence
  nodeId,       \* module-level counter `let nodeId = 1`
  importedASL,  \* useState<ASLDefinition | null>: the retained definition
  aslJson,      \* useState<string>: the text shown by the export dialog
  showAsl,      \* useState<boolean>: export dialog open
  request,      \* body of the create-state-machine request in flight, or Null
  hist,         \* history of the session: what happened since the last import
  call,         \* arguments of one call of a conversion function
  ret,          \* its outcome: Pending before the call returns
  poll          \* one pollExecutionStatus run: its closure and what it did, or Null

vars == <<nodes, edges, nodeId, importedASL, aslJson, showAsl, request, hist, call, ret, poll>>

sessionVars == <<nodes, edges, nodeId, importedASL, aslJson, showAsl, request, hist, poll>>

(***************************************************************************)
(* Bounds of the model.                                                    *)
(***************************************************************************)
MaxEdges == 2

MaxStates == 3

\* The editing session: ids handed out by the counter, edges drawn by hand.
MaxNodeId == 2

MaxConnects == 1

\* Handlers run in one session.
MaxSteps == 6

(***************************************************************************)
(* JavaScript values.                                                      *)
(***************************************************************************)
Null == [null |-> TRUE]

Pending == [pending |-> TRUE]

Returned(v) == [value |-> v]

\* `o.k` is truthy: the key is present and its (string) value is not "".
Truthy(o, k) == k \in DOMAIN o /\ o[k] # ""

\* `delete o.k`
DeleteKey(o, k) == [x \in DOMAIN o \ {k} |-> o[x]]

\* `o.k = v`
SetKey(o, k, v) == (k :> v) @@ o

\* An object used as an ordered map: a sequence of [name, state] entries.
HasEntry(obj, k) == \E i \in DOMAIN obj : obj[i].name = k

GetEntry(obj, k) == obj[CHOOSE i \in DOMAIN obj : obj[i].name = k].state

\* `obj[k] = v`: replaces in place, or appends a new key at the end.
PutEntry(obj, k, v) ==
  IF HasEntry(obj, k)
    THEN [i \in DOMAIN obj |-> IF obj[i].name = k THEN [name |-> k, state |-> v] ELSE obj[i]]
    ELSE Append(obj, [name |-> k, state |-> v])

EntryNames(obj) == {obj[i].name : i \in DOMAIN obj}

MinOf(S) == CHOOSE x \in S : \A y \in S : x <= y

(***************************************************************************)
(* convertToASL                                                            *)
(***************************************************************************)
\* `State_${node.id}`
StateName(id) == "State_" \o id

\* new Set(edges.map((e) => e.target))
NodesWithIncoming(es) == {es[i].target : i \in DOMAIN es}

\* Mutant: the final pass looks at edge targets instead of edge sources.
NodesWithOutgoingByTarget(es) == {es[i].target : i \in DOMAIN es}

\* new Set(edges.map((e) => e.source))
NodesWithOutgoing(es) == {es[i].source : i \in DOMAIN es}

\* Mutant: the start node is always the first node.
StartNodeAlwaysFirst(ns, es) == ns[1]

\* nodes.find((n) => !nodesWithIncoming.has(n.id)) || nodes[0]
StartNode(ns, es) ==
  LET free == {i \in DOMAIN ns : ns[i].id \notin NodesWithIncoming(es)}
  IN  IF free # {} THEN ns[MinOf(free)] ELSE ns[1]

\* The Map nodeId -> stateName filled by the first forEach.
StateMap(ns) == [id \in {ns[i].id : i \in DOMAIN ns} |-> StateName(id)]

\* node.data?.label || fallback
LabelOr(node, fallback) ==
  IF "data" \in DOMAIN node /\ Truthy(node.data, "label") THEN node.data.label ELSE fallback

\* The state object built for one node.
NodeState(node) ==
  IF ("type" \in DOMAIN node /\ node.type = "pass")
     \/ ("data" \in DOMAIN node /\ "stateType" \in DOMAIN node.data /\ node.data.stateType = "Pass")
    THEN [Type    |-> "Pass",
          Comment |-> LabelOr(node, "Pass state " \o node.id),
          Result  |-> IF "data" \in DOMAIN node /\ Truthy(node.data, "result")
                        THEN node.data.result
                        ELSE LabelOr(node, "Pass"),
          End     |-> TRUE]
    ELSE [Type    |-> "Pass",
          Comment |-> LabelOr(node, "State " \o node.id),
          Result  |-> LabelOr(node, "Pass"),
          End     |-> TRUE]

\* Mutant: the loop stops one node early.
RECURSIVE CreateStatesStopsEarly(_, _)
CreateStatesStopsEarly(ns, states) ==
  IF Len(ns) <= 1 THEN states
  ELSE CreateStatesStopsEarly(Tail(ns), PutEntry(states, StateName(Head(ns).id), NodeState(Head(ns))))

\* nodes.forEach: states[stateName] = {...}
RECURSIVE CreateStates(_, _)
CreateStates(ns, states) ==
  IF ns = <<>> THEN states
  ELSE CreateStates(Tail(ns), PutEntry(states, StateName(Head(ns).id), NodeState(Head(ns))))

\* Mutant: a Next that is already set is not overwritten.
ApplyEdgeFirstWins(states, stateMap, edge) ==
  IF edge.source \in DOMAIN stateMap /\ edge.target \in DOMAIN stateMap
     /\ HasEntry(states, stateMap[edge.source])
     /\ "Next" \notin DOMAIN GetEntry(states, stateMap[edge.source])
    THEN LET name == stateMap[edge.source]
         IN  PutEntry(states, name,
                      SetKey(DeleteKey(GetEntry(states, name), "End"), "Next", stateMap[edge.target]))
    ELSE states

\* Mutant: Next is set but End is not deleted.
ApplyEdgeKeepEnd(states, stateMap, edge) ==
  IF edge.source \in DOMAIN stateMap /\ edge.target \in DOMAIN stateMap
     /\ HasEntry(states, stateMap[edge.source])
    THEN LET name == stateMap[edge.source]
         IN  PutEntry(states, name, SetKey(GetEntry(states, name), "Next", stateMap[edge.target]))
    ELSE states

\* Mutant: the target is not looked up in the state map.
ApplyEdgeAnyTarget(states, stateMap, edge) ==
  IF edge.source \in DOMAIN stateMap /\ HasEntry(states, stateMap[edge.source])
    THEN LET name == stateMap[edge.source]
         IN  PutEntry(states, name,
                      SetKey(DeleteKey(GetEntry(states, name), "End"), "Next", StateName(edge.target)))
    ELSE states

\* The body of edges.forEach for one edge.
ApplyEdge(states, stateMap, edge) ==
  IF edge.source \in DOMAIN stateMap /\ edge.target \in DOMAIN stateMap
     /\ HasEntry(states, stateMap[edge.source])
    THEN LET name == stateMap[edge.source]
         IN  PutEntry(states, name,
                      SetKey(DeleteKey(GetEntry(states, name), "End"), "Next", stateMap[edge.target]))
    ELSE states

RECURSIVE ApplyEdges(_, _, _)
ApplyEdges(states, stateMap, es) ==
  IF es = <<>> THEN states
  ELSE ApplyEdges(ApplyEdge(states, stateMap, Head(es)), stateMap, Tail(es))

\* The body of the final nodes.forEach for one node.
MarkEnd(states, stateMap, outgoing, node) ==
  IF node.id \notin outgoing /\ node.id \in DOMAIN stateMap /\ HasEntry(states, stateMap[node.id])
    THEN LET name == stateMap[node.id]
         IN  PutEntry(states, name, SetKey(DeleteKey(GetEntry(states, name), "Next"), "End", TRUE))
    ELSE states

RECURSIVE MarkEnds(_, _, _, _)
MarkEnds(states, stateMap, outgoing, ns) ==
  IF ns = <<>> THEN states
  ELSE MarkEnds(MarkEnd(states, stateMap, outgoing, Head(ns)), stateMap, outgoing, Tail(ns))

GeneratedComment == "State machine generated from Flow Builder"

\* Lines 30-93: the conversion of a non-empty node sequence.
BuildDefinition(ns, es) ==
  LET stateMap == StateMap(ns)
      created  == CreateStates(ns, <<>>)
      linked   == ApplyEdges(created, stateMap, es)
      marked   == MarkEnds(linked, stateMap, NodesWithOutgoing(es), ns)
  IN  [Comment |-> GeneratedComment,
       StartAt |-> stateMap[StartNode(ns, es).id],
       States  |-> marked]

\* Mutant: the empty check is missing and an empty definition comes back.
ConvertToASLNoEmptyCheck(ns, es) ==
  IF Len(ns) = 0
    THEN [Comment |-> GeneratedComment, StartAt |-> "State_undefined", States |-> <<>>]
    ELSE BuildDefinition(ns, es)

ConvertToASL(ns, es) ==
  IF Len(ns) = 0 THEN Null ELSE BuildDefinition(ns, es)

(***************************************************************************)
(* convertFromASL                                                          *)
(***************************************************************************)
\* Mutant: the counter starts at 0.
FromNodeIdFromZero(i) == "node-" \o ToString(i - 1)

\* `node-${nodeCounter++}` for the entry at (1-based) position i: the counter
\* starts at 1 on every call and is incremented once per entry.
FromNodeId(i) == "node-" \o ToString(i)

\* Math.ceil(Math.sqrt(n))
CeilSqrt(n) == MinOf({c \in 0..n : c * c >= n})

\* The grid position of the entry with (0-based) index `index` among n.
GridPosition(index, n) ==
  LET cols == CeilSqrt(n)
  IN  [x |-> (index % cols) * 300 + 100, y |-> (index \div cols) * 200 + 100]

\* Copies key `from` of the state to key `to` of the data bag when the state
\* has it (an undefined value is the same as an absent key).
CopyKey(data, to, state, from) ==
  IF from \in DOMAIN state THEN SetKey(data, to, state[from]) ELSE data

\* Mutant: the label is always the state name.
NodeDataLabelIsName(stateName, state) ==
  LET base == [label     |-> stateName,
               stateType |-> IF Truthy(state, "Type") THEN state.Type ELSE "Pass",
               stateName |-> stateName,
               fullState |-> state]
  IN  CopyKey(CopyKey(CopyKey(base, "resource", state, "Resource"),
                      "parameters", state, "Parameters"),
              "result", state, "Result")

\* The data bag of the node built for one entry.
NodeData(stateName, state) ==
  LET base == [label     |-> IF Truthy(state, "Comment") THEN state.Comment ELSE stateName,
               stateType |-> IF Truthy(state, "Type") THEN state.Type ELSE "Pass",
               stateName |-> stateName,
               fullState |-> state]
  IN  CopyKey(CopyKey(CopyKey(base, "resource", state, "Resource"),
                      "parameters", state, "Parameters"),
              "result", state, "Result")

\* The node built for the entry at position i.
FromNode(entries, i) ==
  [id       |-> FromNodeId(i),
   type     |-> "pass",
   data     |-> NodeData(entries[i].name, entries[i].state),
   position |-> GridPosition(i - 1, Len(entries))]

\* The Map stateName -> nodeId filled by the first forEach (a later entry
\* of the same name would overwrite an earlier one).
StateToNodeId(entries) ==
  [name \in EntryNames(entries) |->
     FromNodeId(CHOOSE i \in DOMAIN entries :
                  /\ entries[i].name = name
                  /\ \A j \in DOMAIN entries : entries[j].name = name => j <= i)]

\* Mutant: a Next that names no state still yields an edge, to that name.
NextEdgesUnchecked(map, source, state) ==
  IF Truthy(state, "Next")
    THEN LET target == IF state.Next \in DOMAIN map THEN map[state.Next] ELSE state.Next
         IN  << [id |-> "edge-" \o source \o "-" \o target, source |-> source, target |-> target] >>
    ELSE <<>>

\* Mutant: source and target of the edge are swapped.
NextEdgesReversed(map, source, state) ==
  IF Truthy(state, "Next") /\ state.Next \in DOMAIN map
    THEN << [id     |-> "edge-" \o source \o "-" \o map[state.Next],
             source |-> map[state.Next],
             target |-> source] >>
    ELSE <<>>

\* The edge pushed for a Next transition, if any.
NextEdges(map, source, state) ==
  IF Truthy(state, "Next") /\ state.Next \in DOMAIN map
    THEN << [id     |-> "edge-" \o source \o "-" \o map[state.Next],
             source |-> source,
             target |-> map[state.Next]] >>
    ELSE <<>>

\* Mutant: the fallback label counts the entries from 0.
RECURSIVE ChoiceEdgesZeroBased(_, _, _, _)
ChoiceEdgesZeroBased(map, source, choices, k) ==
  IF k > Len(choices) THEN <<>>
  ELSE LET choice == choices[k]
           here   == IF Truthy(choice, "Next") /\ choice.Next \in DOMAIN map
                       THEN << [id     |-> "edge-" \o source \o "-" \o map[choice.Next]
                                             \o "-" \o ToString(k - 1),
                                source |-> source,
                                target |-> map[choice.Next],
                                label  |-> IF Truthy(choice, "Variable")
                                             THEN choice.Variable
                                             ELSE "Choice " \o ToString(k - 1)] >>
                       ELSE <<>>
       IN  here \o ChoiceEdgesZeroBased(map, source, choices, k + 1)

\* Mutant: the fallback label counts the entries that were kept.
RECURSIVE ChoiceEdgesKeptPosition(_, _, _, _)
ChoiceEdgesKeptPosition(map, source, choices, k) ==
  IF k > Len(choices) THEN <<>>
  ELSE LET choice == choices[k]
           kept   == Cardinality({j \in 1..k : Truthy(choices[j], "Next")
                                                 /\ choices[j].Next \in DOMAIN map})
           here   == IF Truthy(choice, "Next") /\ choice.Next \in DOMAIN map
                       THEN << [id     |-> "edge-" \o source \o "-" \o map[choice.Next]
                                             \o "-" \o ToString(k - 1),
                                source |-> source,
                                target |-> map[choice.Next],
                                label  |-> IF Truthy(choice, "Variable")
                                             THEN choice.Variable
                                             ELSE "Choice " \o ToString(kept)] >>
                       ELSE <<>>
       IN  here \o ChoiceEdgesKeptPosition(map, source, choices, k + 1)

\* Mutant: the id of a choice edge does not carry the index of the entry.
RECURSIVE ChoiceEdgesIdWithoutIndex(_, _, _, _)
ChoiceEdgesIdWithoutIndex(map, source, choices, k) ==
  IF k > Len(choices) THEN <<>>
  ELSE LET choice == choices[k]
           here   == IF Truthy(choice, "Next") /\ choice.Next \in DOMAIN map
                       THEN << [id     |-> "edge-" \o source \o "-" \o map[choice.Next],
                                source |-> source,
                                target |-> map[choice.Next],
                                label  |-> IF Truthy(choice, "Variable")
                                             THEN choice.Variable
                                             ELSE "Choice " \o ToString(k)] >>
                       ELSE <<>>
       IN  here \o ChoiceEdgesIdWithoutIndex(map, source, choices, k + 1)

\* The edges pushed by Choices.forEach from (1-based) position k on.
RECURSIVE ChoiceEdges(_, _, _, _)
ChoiceEdges(map, source, choices, k) ==
  IF k > Len(choices) THEN <<>>
  ELSE LET choice == choices[k]
           here   == IF Truthy(choice, "Next") /\ choice.Next \in DOMAIN map
                       THEN << [id     |-> "edge-" \o source \o "-" \o map[choice.Next]
                                             \o "-" \o ToString(k - 1),
                                source |-> source,
                                target |-> map[choice.Next],
                                label  |-> IF Truthy(choice, "Variable")
                                             THEN choice.Variable
                                             ELSE "Choice " \o ToString(k)] >>
                       ELSE <<>>
       IN  here \o ChoiceEdges(map, source, choices, k + 1)

\* The edge pushed for Default, if any.
DefaultEdges(map, source, state) ==
  IF Truthy(state, "Default") /\ state.Default \in DOMAIN map
    THEN << [id     |-> "edge-" \o source \o "-" \o map[state.Default] \o "-default",
             source |-> source,
             target |-> map[state.Default],
             label  |-> "Default"] >>
    ELSE <<>>

\* Mutant: a Choice state's Next is not looked at.
StateEdgesChoiceSkipsNext(map, stateName, state) ==
  LET source == map[stateName]
  IN  IF "Type" \in DOMAIN state /\ state.Type = "Choice"
        THEN (IF "Choices" \in DOMAIN state
                THEN ChoiceEdges(map, source, state.Choices, 1)
                ELSE <<>>)
             \o DefaultEdges(map, source, state)
        ELSE NextEdges(map, source, state)

\* The body of the second forEach for one entry.
StateEdges(map, stateName, state) ==
  LET source == map[stateName]
  IN  NextEdges(map, source, state)
      \o (IF "Type" \in DOMAIN state /\ state.Type = "Choice"
            THEN (IF "Choices" \in DOMAIN state
                    THEN ChoiceEdges(map, source, state.Choices, 1)
                    ELSE <<>>)
                 \o DefaultEdges(map, source, state)
            ELSE <<>>)

RECURSIVE AllEdges(_, _, _)
AllEdges(map, entries, i) ==
  IF i > Len(entries) THEN <<>>
  ELSE StateEdges(map, entries[i].name, entries[i].state) \o AllEdges(map, entries, i + 1)

\* Lines 104-199: the conversion of a definition that passed the check.
BuildGraph(def) ==
  [nodes |-> [i \in DOMAIN def.States |-> FromNode(def.States, i)],
   edges |-> AllEdges(StateToNodeId(def.States), def.States, 1)]

\* Mutant: the check of StartAt is missing.
ConvertFromASLNoStartAtCheck(def) ==
  IF def = Null \/ "States" \notin DOMAIN def THEN Null ELSE BuildGraph(def)

\* !aslDefinition || !aslDefinition.States || !aslDefinition.StartAt: an
\* object, even an empty one, is truthy; an absent key and "" are not.
ConvertFromASL(def) ==
  IF def = Null \/ "States" \notin DOMAIN def \/ ~Truthy(def, "StartAt")
    THEN Null
    ELSE BuildGraph(def)

(***************************************************************************)
(* Inputs of the conversion calls.                                         *)
(***************************************************************************)
\* Nodes of the kinds the editor and callers can hand over: a node added by
\* the editor, a node of another kind, and a node that claims no kind.
NodePool ==
  { [id |-> "node-1", type |-> "pass", data |-> [label |-> "Pass State 1", stateType |-> "Pass"]],
    [id |-> "node-2", type |-> "task", data |-> [label |-> "", stateType |-> "Task"]],
    [id |-> "node-3", data |-> [label |-> "C"]] }

PoolIds == {n.id : n \in NodePool}

\* An id that no node carries.
UnknownId == "node-9"

EdgeEnds == PoolIds \cup {UnknownId}

MkEdge(s, t) == [id |-> "e" \o s \o "-" \o t, source |-> s, target |-> t]

EdgePool == {MkEdge(s, t) : s \in EdgeEnds, t \in EdgeEnds}

SeqsUpTo(S, n) == UNION {[1..k -> S] : k \in 0..n}

\* Node sequences with pairwise distinct ids, in every order.
NodeSeqs == {ns \in SeqsUpTo(NodePool, Cardinality(NodePool)) :
               \A i, j \in DOMAIN ns : i # j => ns[i].id # ns[j].id}

EdgeSeqs == SeqsUpTo(EdgePool, MaxEdges)

\* The name of the state at position i of a definition handed to a call.
DefStateName(i) == "S" \o ToString(i)

\* A target that names no state.
NoSuchState == "NoSuchState"

\* State objects of definitions: Pass states that end, chain, loop back or
\* dangle, a state without Type, a Task, and Choice states with and without
\* dangling or repeated targets.
StatePool ==
  { [Type |-> "Pass", End |-> TRUE],
    [Type |-> "Pass", Comment |-> "first step", Result |-> "r", Next |-> "S2"],
    [Type |-> "Pass", Next |-> "S1"],
    [Type |-> "Pass", Next |-> "S3"],
    [Type |-> "Pass", Next |-> NoSuchState],
    [Comment |-> "", End |-> TRUE],
    [Type |-> "Task", Resource |-> "arn:aws:lambda:fn", Parameters |-> [k |-> "v"], Next |-> "S1"],
    [Type |-> "Choice",
     Choices |-> << [Variable |-> "$.x", Next |-> "S1"], [Next |-> "S2"] >>,
     Default |-> "S1"],
    [Type |-> "Choice",
     Choices |-> << [Variable |-> "$.y"], [Next |-> NoSuchState], [Next |-> "S2"] >>,
     Default |-> NoSuchState],
    [Type |-> "Choice", Next |-> "S1",
     Choices |-> << [Next |-> "S1"], [Next |-> "S1"] >>,
     Default |-> "S1"] }

\* The States objects: up to MaxStates entries named S1, S2, ...
StatesPool ==
  {[i \in DOMAIN ss |-> [name |-> DefStateName(i), state |-> ss[i]]] : ss \in SeqsUpTo(StatePool, MaxStates)}

\* Definitions with and without States, with and without StartAt.
DefPool ==
  {[States |-> st] : st \in StatesPool}
  \cup {[StartAt |-> sa, States |-> st] : sa \in {"", "S1", "S2", "S3"}, st \in StatesPool}
  \cup {[StartAt |-> "S1"], [StartAt |-> "S1", Comment |-> "no states"], [Comment |-> "nothing"]}

\* No import yet, no edit since, no handler has run.
NoHistory == [lastImport |-> Null, since |-> {}, op |-> "none", steps |-> 0]

SessionIdle ==
  /\ nodes = <<>>
  /\ edges = <<>>
  /\ nodeId = 1
  /\ importedASL = Null
  /\ aslJson = [text |-> ""]
  /\ showAsl = FALSE
  /\ request = Null
  /\ hist = NoHistory

InitToASL ==
  /\ SessionIdle
  /\ poll = Null
  /\ call \in {[fn |-> "convertToASL", nodes |-> ns, edges |-> es] : ns \in NodeSeqs, es \in EdgeSeqs}
  /\ ret = Pending

CallConvertToASL ==
  /\ call.fn = "convertToASL"
  /\ ret = Pending
  /\ ret' = Returned(ConvertToASL(call.nodes, call.edges))
  /\ UNCHANGED <<call, sessionVars>>

NextToASL == CallConvertToASL

SpecToASL == InitToASL /\ [][NextToASL]_vars

InitFromASL ==
  /\ SessionIdle
  /\ poll = Null
  /\ call \in {[fn |-> "convertFromASL", def |-> d] : d \in DefPool}
  /\ ret = Pending

CallConvertFromASL ==
  /\ call.fn = "convertFromASL"
  /\ ret = Pending
  /\ ret' = Returned(ConvertFromASL(call.def))
  /\ UNCHANGED <<call, sessionVars>>

NextFromASL == CallConvertFromASL

SpecFromASL == InitFromASL /\ [][NextFromASL]_vars

(***************************************************************************)
(* The round trip: convertFromASL on a definition, then convertToASL on    *)
(* the nodes and edges it returned.                                        *)
(***************************************************************************)
InitRoundTrip ==
  /\ SessionIdle
  /\ poll = Null
  /\ call \in {[fn |-> "roundTrip", def |-> d] : d \in DefPool}
  /\ ret = Pending

RoundTripFromASL ==
  /\ call.fn = "roundTrip"
  /\ ret = Pending
  /\ ret' = Returned(ConvertFromASL(call.def))
  /\ UNCHANGED <<call, sessionVars>>

\* Mutant: convertToASL shifts the nodes off the array it was given.
RoundTripToASLConsumesNodes ==
  /\ call.fn = "roundTrip"
  /\ ret # Pending
  /\ "back" \notin DOMAIN ret
  /\ ret.value # Null
  /\ ret' = [value |-> [nodes |-> <<>>, edges |-> ret.value.edges],
             back  |-> ConvertToASL(ret.value.nodes, ret.value.edges)]
  /\ UNCHANGED <<call, sessionVars>>

RoundTripToASL ==
  /\ call.fn = "roundTrip"
  /\ ret # Pending
  /\ "back" \notin DOMAIN ret
  /\ ret.value # Null
  /\ ret' = [value |-> ret.value, back |-> ConvertToASL(ret.value.nodes, ret.value.edges)]
  /\ UNCHANGED <<call, sessionVars>>

NextRoundTrip == RoundTripFromASL \/ RoundTripToASL

SpecRoundTrip == InitRoundTrip /\ [][NextRoundTrip]_vars

(***************************************************************************)
(* The editing session (FlowBuilder in page.tsx).  Each action is one      *)
(* event handler run to completion.  hist records, beside the program's    *)
(* state, the definition of the last successful import, what happened      *)
(* since (the kinds of edit, a failed import), the handler that ran last   *)
(* and the number of handlers run.                                         *)
(***************************************************************************)
\* Texts of the import box: a string that is blank, a string that is not
\* JSON, or the JSON text of a value.
Stringify(v) == [json |-> v]

IsBlank(t) == "text" \in DOMAIN t /\ t.text \in {"", "  "}

Parses(t) == "json" \in DOMAIN t

JsonParse(t) == t.json

ImportDefs ==
  { [StartAt |-> "S1", States |-> << [name |-> "S1", state |-> [Type |-> "Task", Resource |-> "arn:aws:lambda:fn", End |-> TRUE]] >>],
    [Comment |-> "two steps", StartAt |-> "S1",
     States |-> << [name |-> "S1", state |-> [Type |-> "Pass", Comment |-> "first step", Next |-> "S2"]],
                   [name |-> "S2", state |-> [Type |-> "Succeed"]] >>],
    [StartAt |-> "S1"],
    [States |-> << [name |-> "S1", state |-> [Type |-> "Pass", End |-> TRUE]] >>],
    [StartAt |-> "S1", States |-> <<>>] }

ImportTexts == {[text |-> ""], [text |-> "  "], [text |-> "not json"]} \cup {Stringify(d) : d \in ImportDefs}

\* Math.random() * 400 + 100 for x and y: the position plays no part in any
\* conversion, one value stands for all.
RandomPositions == {[x |-> 100, y |-> 100]}

Record(op) == [hist EXCEPT !.op = op, !.steps = @ + 1]

Edited(kind) == [hist EXCEPT !.op = kind, !.since = @ \cup {kind}, !.steps = @ + 1]

\* The session is followed for MaxSteps handlers.
CanStep == hist.steps < MaxSteps

NodeIds == {nodes[i].id : i \in DOMAIN nodes}

\* reactflow's addEdge: a connection that is already there is not added
\* again; the new edge goes to the end.
AddEdge(source, target, eds) ==
  IF \E i \in DOMAIN eds : eds[i].source = source /\ eds[i].target = target
    THEN eds
    ELSE Append(eds, [id |-> "reactflow__edge-" \o source \o "-" \o target,
                      source |-> source, target |-> target])

OnConnect ==
  \E s \in NodeIds, t \in NodeIds :
    /\ CanStep
    /\ Len(edges) < MaxConnects
    /\ edges' = AddEdge(s, t, edges)
    /\ importedASL' = Null
    /\ hist' = Edited("connect")
    /\ UNCHANGED <<nodes, nodeId, aslJson, showAsl, request, call, ret, poll>>

\* Mutant: the retained definition survives an added node.
AddPassStateKeepsImported ==
  \E pos \in RandomPositions :
    /\ CanStep
    /\ nodeId <= MaxNodeId
    /\ nodes' = Append(nodes, [id       |-> "node-" \o ToString(nodeId),
                               type     |-> "pass",
                               data     |-> [label |-> "Pass State " \o ToString(nodeId), stateType |-> "Pass"],
                               position |-> pos])
    /\ nodeId' = nodeId + 1
    /\ hist' = Edited("add")
    /\ UNCHANGED <<edges, importedASL, aslJson, showAsl, request, call, ret, poll>>

AddPassState ==
  \E pos \in RandomPositions :
    /\ CanStep
    /\ nodeId <= MaxNodeId
    /\ nodes' = Append(nodes, [id       |-> "node-" \o ToString(nodeId),
                               type     |-> "pass",
                               data     |-> [label |-> "Pass State " \o ToString(nodeId), stateType |-> "Pass"],
                               position |-> pos])
    /\ nodeId' = nodeId + 1
    /\ importedASL' = Null
    /\ hist' = Edited("add")
    /\ UNCHANGED <<edges, aslJson, showAsl, request, call, ret, poll>>

\* The nodes whose `selected` flag is set are the input: the flag is set by
\* the canvas and read by nothing else.
DeleteSelectedNodes ==
  \E selected \in SUBSET NodeIds :
    /\ CanStep
    /\ selected # {}
    /\ nodes' = SelectSeq(nodes, LAMBDA n : n.id \notin selected)
    /\ edges' = SelectSeq(edges, LAMBDA e : e.source \notin selected /\ e.target \notin selected)
    /\ hist' = Edited("delete")
    /\ UNCHANGED <<nodeId, importedASL, aslJson, showAsl, request, call, ret, poll>>

\* Mutant: an empty graph is emitted as a definition without states.
DefinitionToEmitEmptyDocument ==
  IF importedASL # Null THEN importedASL
  ELSE IF nodes = <<>> THEN [Comment |-> GeneratedComment, StartAt |-> "", States |-> <<>>]
  ELSE ConvertToASL(nodes, edges)

\* importedASL || convertToASL(nodes, edges)
DefinitionToEmit ==
  IF importedASL # Null THEN importedASL ELSE ConvertToASL(nodes, edges)

ExportToASL ==
  /\ CanStep
  /\ IF DefinitionToEmit # Null
       THEN aslJson' = Stringify(DefinitionToEmit) /\ showAsl' = TRUE
       ELSE UNCHANGED <<aslJson, showAsl>>
  /\ hist' = Record("export")
  /\ UNCHANGED <<nodes, edges, nodeId, importedASL, request, call, ret, poll>>

\* The close buttons of the export dialog.
CloseAsl ==
  /\ CanStep
  /\ showAsl
  /\ showAsl' = FALSE
  /\ hist' = Record("close")
  /\ UNCHANGED <<nodes, edges, nodeId, importedASL, aslJson, request, call, ret, poll>>

\* The button is disabled while a request is in flight (isDeploying).  The
\* request body carries the definition; the name typed by the user is left
\* out.
DeployToAWS ==
  /\ CanStep
  /\ request = Null
  /\ IF DefinitionToEmit # Null
       THEN request' = [definition |-> DefinitionToEmit]
       ELSE UNCHANGED request
  /\ hist' = Record("deploy")
  /\ UNCHANGED <<nodes, edges, nodeId, importedASL, aslJson, showAsl, call, ret, poll>>

\* The response, or the failure, of the request: isDeploying is reset.
DeployDone ==
  /\ CanStep
  /\ request # Null
  /\ request' = Null
  /\ hist' = Record("deployed")
  /\ UNCHANGED <<nodes, edges, nodeId, importedASL, aslJson, showAsl, call, ret, poll>>

\* Mutant: a definition without States or StartAt clears the retained one.
ConfirmImportASLInvalidClears ==
  \E text \in ImportTexts :
    /\ CanStep
    /\ IF IsBlank(text)
         THEN /\ hist' = Record("importRefused")
              /\ UNCHANGED <<nodes, edges, nodeId, importedASL, aslJson, showAsl, request, call, ret, poll>>
       ELSE IF ~Parses(text)
         THEN /\ importedASL' = Null
              /\ hist' = Edited("importFailed")
              /\ UNCHANGED <<nodes, edges, nodeId, aslJson, showAsl, request, call, ret, poll>>
       ELSE IF "States" \notin DOMAIN JsonParse(text) \/ ~Truthy(JsonParse(text), "StartAt")
         THEN /\ importedASL' = Null
              /\ hist' = Record("importInvalid")
              /\ UNCHANGED <<nodes, edges, nodeId, aslJson, showAsl, request, call, ret, poll>>
       ELSE LET result == ConvertFromASL(JsonParse(text))
            IN  IF result # Null /\ Len(result.nodes) > 0
                  THEN /\ importedASL' = JsonParse(text)
                       /\ nodes' = result.nodes
                       /\ edges' = result.edges
                       /\ nodeId' = Len(result.nodes) + 1
                       /\ hist' = [lastImport |-> JsonParse(text), since |-> {}, op |-> "import",
                                   steps |-> hist.steps + 1]
                       /\ UNCHANGED <<aslJson, showAsl, request, call, ret, poll>>
                  ELSE /\ importedASL' = Null
                       /\ hist' = Edited("importFailed")
                       /\ UNCHANGED <<nodes, edges, nodeId, aslJson, showAsl, request, call, ret, poll>>

\* Mutant: a successful import leaves the node-id counter where it was.
ConfirmImportASLKeepsCounter ==
  \E text \in ImportTexts :
    /\ CanStep
    /\ IF IsBlank(text)
         THEN /\ hist' = Record("importRefused")
              /\ UNCHANGED <<nodes, edges, nodeId, importedASL, aslJson, showAsl, request, call, ret, poll>>
       ELSE IF ~Parses(text)
         THEN /\ importedASL' = Null
              /\ hist' = Edited("importFailed")
              /\ UNCHANGED <<nodes, edges, nodeId, aslJson, showAsl, request, call, ret, poll>>
       ELSE IF "States" \notin DOMAIN JsonParse(text) \/ ~Truthy(JsonParse(text), "StartAt")
         THEN /\ hist' = Record("importInvalid")
              /\ UNCHANGED <<nodes, edges, nodeId, importedASL, aslJson, showAsl, request, call, ret, poll>>
       ELSE LET result == ConvertFromASL(JsonParse(text))
            IN  IF result # Null /\ Len(result.nodes) > 0
                  THEN /\ importedASL' = JsonParse(text)
                       /\ nodes' = result.nodes
                       /\ edges' = result.edges
                       /\ nodeId' = nodeId
                       /\ hist' = [lastImport |-> JsonParse(text), since |-> {}, op |-> "import",
                                   steps |-> hist.steps + 1]
                       /\ UNCHANGED <<aslJson, showAsl, request, call, ret, poll>>
                  ELSE /\ importedASL' = Null
                       /\ hist' = Edited("importFailed")
                       /\ UNCHANGED <<nodes, edges, nodeId, aslJson, showAsl, request, call, ret, poll>>

ConfirmImportASL ==
  \E text \in ImportTexts :
    /\ CanStep
    /\ IF IsBlank(text)
         THEN /\ hist' = Record("importRefused")
              /\ UNCHANGED <<nodes, edges, nodeId, importedASL, aslJson, showAsl, request, call, ret, poll>>
       ELSE IF ~Parses(text)
         THEN /\ importedASL' = Null
              /\ hist' = Edited("importFailed")
              /\ UNCHANGED <<nodes, edges, nodeId, aslJson, showAsl, request, call, ret, poll>>
       ELSE IF "States" \notin DOMAIN JsonParse(text) \/ ~Truthy(JsonParse(text), "StartAt")
         THEN /\ hist' = Record("importInvalid")
              /\ UNCHANGED <<nodes, edges, nodeId, importedASL, aslJson, showAsl, request, call, ret, poll>>
       ELSE LET result == ConvertFromASL(JsonParse(text))
            IN  IF result # Null /\ Len(result.nodes) > 0
                  THEN /\ importedASL' = JsonParse(text)
                       /\ nodes' = result.nodes
                       /\ edges' = result.edges
                       /\ nodeId' = Len(result.nodes) + 1
                       /\ hist' = [lastImport |-> JsonParse(text), since |-> {}, op |-> "import",
                                   steps |-> hist.steps + 1]
                       /\ UNCHANGED <<aslJson, showAsl, request, call, ret, poll>>
                  ELSE /\ importedASL' = Null
                       /\ hist' = Edited("importFailed")
                       /\ UNCHANGED <<nodes, edges, nodeId, aslJson, showAsl, request, call, ret, poll>>

Init ==
  /\ SessionIdle
  /\ poll = Null
  /\ call = Null
  /\ ret = Null

Next ==
  \/ AddPassState
  \/ OnConnect
  \/ DeleteSelectedNodes
  \/ ExportToASL
  \/ CloseAsl
  \/ DeployToAWS
  \/ DeployDone
  \/ ConfirmImportASL

Spec == Init /\ [][Next]_vars

(***************************************************************************)
(* One run of pollExecutionStatus(executionArn).  poll holds the closure    *)
(* (attempts), where the run stands (phase), what the last response was     *)
(* (last), and two counts of what the run did: the status requests it       *)
(* issued and the calls of loadExecutionHistory it made.                    *)
(***************************************************************************)
\* const maxAttempts = 60
maxAttempts == 60

\* The values of result.status in an OK response.
Statuses == {"RUNNING", "SUCCEEDED", "FAILED"}

\* pollExecutionStatus was called: attempts = 0, poll() runs up to its
\* first await, the status request is out.
InitPoll ==
  /\ SessionIdle
  /\ call = Null
  /\ ret = Null
  /\ poll = [phase |-> "waiting", attempts |-> 0, last |-> "none", requests |-> 1, refreshes |-> 0]

\* Mutant: one more re-poll is scheduled (attempts <= maxAttempts).
PollStillRunningOffByOne ==
  /\ poll.phase = "waiting"
  /\ poll.attempts <= maxAttempts
  /\ poll' = [poll EXCEPT !.phase = "scheduled", !.attempts = @ + 1, !.last = "RUNNING"]
  /\ UNCHANGED <<nodes, edges, nodeId, importedASL, aslJson, showAsl, request, hist, call, ret>>

\* An OK response with status RUNNING while attempts < maxAttempts:
\* attempts++, setTimeout(poll, 1000).
PollStillRunning ==
  /\ poll.phase = "waiting"
  /\ poll.attempts < maxAttempts
  /\ poll' = [poll EXCEPT !.phase = "scheduled", !.attempts = @ + 1, !.last = "RUNNING"]
  /\ UNCHANGED <<nodes, edges, nodeId, importedASL, aslJson, showAsl, request, hist, call, ret>>

\* The timer fires: poll() runs again and issues the next status request.
PollTimer ==
  /\ poll.phase = "scheduled"
  /\ poll' = [poll EXCEPT !.phase = "waiting", !.requests = @ + 1]
  /\ UNCHANGED <<nodes, edges, nodeId, importedASL, aslJson, showAsl, request, hist, call, ret>>

\* An OK response in the else branch: the status is not RUNNING, or
\* attempts has reached maxAttempts; loadExecutionHistory() is called.
PollFinished ==
  \E status \in Statuses :
    /\ poll.phase = "waiting"
    /\ ~(status = "RUNNING" /\ poll.attempts < maxAttempts)
    /\ poll' = [poll EXCEPT !.phase = "done", !.last = status, !.refreshes = @ + 1]
    /\ UNCHANGED <<nodes, edges, nodeId, importedASL, aslJson, showAsl, request, hist, call, ret>>

\* A response that is not OK: nothing is done.
PollNotOk ==
  /\ poll.phase = "waiting"
  /\ poll' = [poll EXCEPT !.phase = "done", !.last = "notOk"]
  /\ UNCHANGED <<nodes, edges, nodeId, importedASL, aslJson, showAsl, request, hist, call, ret>>

\* fetch or response.json() throws: the catch block logs.
PollThrows ==
  /\ poll.phase = "waiting"
  /\ poll' = [poll EXCEPT !.phase = "done", !.last = "throws"]
  /\ UNCHANGED <<nodes, edges, nodeId, importedASL, aslJson, showAsl, request, hist, call, ret>>

\* The request in flight settles in one of the four ways.
PollSettles == PollStillRunning \/ PollFinished \/ PollNotOk \/ PollThrows

NextPoll == PollSettles \/ PollTimer

SpecPoll == InitPoll /\ [][NextPoll]_vars

\* A request that is out settles and a timer that is set fires.
FairSpecPoll == SpecPoll /\ WF_vars(PollSettles) /\ WF_vars(PollTimer)

(***************************************************************************)
(* Claims about the editing session, checked under Spec.                   *)
(***************************************************************************)
\* The definition derived purely from the current graph.
FromGraph == ConvertToASL(nodes, edges)

\* The last handler emitted definition d: the export dialog shows it, or the
\* create-state-machine request carries it.
Emitted(d) ==
  /\ hist.op = "export" => (showAsl /\ aslJson = Stringify(d))
  /\ hist.op = "deploy" => request = [definition |-> d]

JustEmitted == hist.op \in {"export", "deploy"}

\* C2: after a successful import, an add-node or manual connect discards the
\* retained definition, and the next export or deploy emits the definition
\* derived from the current graph.
C2_AddOrConnectDiscards ==
  (hist.lastImport # Null /\ hist.since \cap {"add", "connect"} # {}) =>
    /\ importedASL = Null
    /\ (JustEmitted /\ FromGraph # Null) => Emitted(FromGraph)

\* C2 witness: an import, then an added node, then an export that shows the
\* definition of the graph with the added node in it.
C2_Witness ==
  /\ hist.lastImport # Null /\ "add" \in hist.since
  /\ hist.op = "export" /\ showAsl
  /\ aslJson = Stringify(FromGraph)
  /\ \E i \in DOMAIN nodes : HasEntry(FromGraph.States, "State_" \o nodes[i].id)
                              /\ "fullState" \notin DOMAIN nodes[i].data

\* C2, the connect case reached: an import, a manual connect, a deploy.
C2_ConnectReached ==
  /\ hist.lastImport # Null /\ hist.since = {"connect"}
  /\ hist.op = "deploy" /\ request = [definition |-> FromGraph]

\* C3: after a successful import, a delete-node action discards the retained
\* definition: the next export or deploy emits the definition derived from
\* the current graph, in which the deleted state does not appear.
C3_DeleteDiscards ==
  (/\ hist.lastImport # Null /\ "delete" \in hist.since
   /\ JustEmitted /\ FromGraph # Null)
    => Emitted(FromGraph)

\* What the code does for C3: after an import and nothing but deletions, the
\* imported definition is still retained and is what gets emitted.
C3_CodeKeepsImported ==
  (hist.lastImport # Null /\ hist.since = {"delete"}) =>
    /\ importedASL = hist.lastImport
    /\ JustEmitted => Emitted(hist.lastImport)

\* C4: after a successful import and before any structural edit, export and
\* deploy emit the imported definition unchanged.
C4_ImportedReemitted ==
  (/\ hist.lastImport # Null /\ hist.since \cap {"add", "connect", "delete"} = {}
   /\ JustEmitted)
    => Emitted(hist.lastImport)

\* What the code does for C4: the imported definition is emitted as long as
\* nothing at all happened since the import, a failed import included.
C4_CodeReemitsUntilFailedImport ==
  (hist.lastImport # Null /\ hist.since = {} /\ JustEmitted) => Emitted(hist.lastImport)

\* C22: an import whose text parses to a definition without States or
\* without StartAt leaves the nodes, the edges, the node-id counter and the
\* retained definition exactly as they were.
C22_InvalidImportRejected ==
  [][(hist'.steps # hist.steps /\ hist'.op = "importInvalid")
       => UNCHANGED <<nodes, edges, nodeId, importedASL>>]_vars

\* C22 witness: such an import was just rejected in a session that holds
\* an imported graph and its definition.
C22_Witness ==
  /\ hist.op = "importInvalid"
  /\ nodes # <<>>
  /\ importedASL # Null
  /\ nodeId > 1

\* The graph is empty and no imported definition is retained.
NothingToEmit == nodes = <<>> /\ importedASL = Null

\* C23: with an empty graph and no retained definition, export opens no
\* document (the dialog and its text stay as they were) and deploy sends no
\* request.
C23_EmptyRefused ==
  [][(NothingToEmit /\ hist'.steps # hist.steps)
       => /\ hist'.op = "export" => UNCHANGED <<aslJson, showAsl>>
          /\ hist'.op = "deploy" => request' = Null]_vars

\* C23 witness: export was just refused on the empty graph, nothing is shown.
C23_Witness ==
  /\ NothingToEmit
  /\ hist.op = "export"
  /\ ~showAsl
  /\ aslJson = [text |-> ""]

\* Deploy was just refused on the empty graph, nothing is in flight.
C23_DeployRefusedReached ==
  /\ NothingToEmit
  /\ hist.op = "deploy"
  /\ request = Null

\* C24: the ids of the nodes of the session are pairwise distinct, and each
\* is node-<k> for some k below the session's counter.
C24_DistinctIds ==
  /\ \A i, j \in DOMAIN nodes : i # j => nodes[i].id # nodes[j].id
  /\ \A i \in DOMAIN nodes : \E k \in 1..(nodeId - 1) : nodes[i].id = "node-" \o ToString(k)

\* C24 witness: a node was just added next to a node that came from an
\* import.
C24_Witness ==
  /\ hist.op = "add"
  /\ hist.lastImport # Null
  /\ Len(nodes) = 2
  /\ "fullState" \in DOMAIN nodes[1].data
  /\ nodes[2].id = "node-2"

\* A node was just added after a deletion emptied the graph.
C24_AddAfterDeleteReached ==
  /\ hist.op = "add"
  /\ "delete" \in hist.since
  /\ Len(nodes) = 1
  /\ nodes[1].id = "node-2"

\* The handler that just ran was an import that did not replace the graph.
ImportJustFailed ==
  /\ hist'.steps # hist.steps
  /\ hist'.op \in {"importRefused", "importInvalid", "importFailed"}

\* C27: an import that fails (blank text, text that is not JSON, a
\* definition without States or StartAt, a definition that converts to no
\* nodes) leaves nodes, edges, the node-id counter and the retained
\* definition as they were.
C27_FailedImportKeepsSession ==
  [][ImportJustFailed => UNCHANGED <<nodes, edges, nodeId, importedASL>>]_vars

\* What the code keeps: the graph and the counter; the retained definition
\* is kept by the refusals and dropped by the two failures.
C27_FailedImportKeepsGraph ==
  [][ImportJustFailed =>
       /\ UNCHANGED <<nodes, edges, nodeId>>
       /\ importedASL' = (IF hist'.op = "importFailed" THEN Null ELSE importedASL)]_vars

(***************************************************************************)
(* Claims about convertToASL, checked under SpecToASL.                     *)
(***************************************************************************)
ToASLReturned == call.fn = "convertToASL" /\ ret # Pending

\* The ids of the nodes handed to the call.
CallIds == {call.nodes[i].id : i \in DOMAIN call.nodes}

\* An edge both of whose ends are ids of nodes of the call.
Resolves(e) == e.source \in CallIds /\ e.target \in CallIds

HasNext(s) == "Next" \in DOMAIN s

HasEnd(s) == "End" \in DOMAIN s

\* C1: for every input graph with at least one node, every state of the
\* returned definition has exactly one of Next / End: never both, never
\* neither.
C1_NextXorEnd ==
  (ToASLReturned /\ Len(call.nodes) >= 1) =>
    \A i \in DOMAIN ret.value.States :
      HasNext(ret.value.States[i].state) # HasEnd(ret.value.States[i].state)

\* C1 witness: a call has returned for a graph with a cycle, an edge that
\* names an unknown id, a state with Next and a state with End.
C1_Witness ==
  /\ ToASLReturned /\ Len(call.nodes) = 3
  /\ \E i \in DOMAIN call.edges : call.edges[i].source = call.edges[i].target /\ Resolves(call.edges[i])
  /\ \E i \in DOMAIN call.edges : ~Resolves(call.edges[i]) /\ call.edges[i].source \in CallIds
  /\ \E i \in DOMAIN ret.value.States : HasNext(ret.value.States[i].state)
  /\ \E i \in DOMAIN ret.value.States : HasEnd(ret.value.States[i].state)

\* C5: a call with an empty node sequence returns null for every edge
\* sequence, never an empty definition.
C5_EmptyNodesNull ==
  (ToASLReturned /\ call.nodes = <<>>) => ret.value = Null

\* C5 witness: a call with no nodes and some edges has returned.
C5_Witness ==
  ToASLReturned /\ call.nodes = <<>> /\ Len(call.edges) >= 1 /\ ret.value = Null

\* C8: StartAt is State_<id> of the first node, in nodes order, that is the
\* target of no edge; if every node is the target of some edge, StartAt is
\* State_<id> of the first node.
C8_StartAt ==
  (ToASLReturned /\ Len(call.nodes) >= 1) =>
    LET targets == {call.edges[i].target : i \in DOMAIN call.edges}
    IN  /\ \A i \in DOMAIN call.nodes :
             (call.nodes[i].id \notin targets
              /\ \A j \in 1..(i - 1) : call.nodes[j].id \in targets)
               => ret.value.StartAt = "State_" \o call.nodes[i].id
        /\ (\A i \in DOMAIN call.nodes : call.nodes[i].id \in targets)
               => ret.value.StartAt = "State_" \o call.nodes[1].id

\* C8 witness: the start state is not the first node's (the first node has
\* an incoming edge and a later one has none).
C8_Witness ==
  /\ ToASLReturned /\ Len(call.nodes) >= 2
  /\ ret.value.StartAt # "State_" \o call.nodes[1].id

\* C8 second case reached: every node has an incoming edge (a ring).
C8_RingReached ==
  /\ ToASLReturned /\ Len(call.nodes) >= 2
  /\ \A i \in DOMAIN call.nodes : \E k \in DOMAIN call.edges : call.edges[k].target = call.nodes[i].id

\* C9: the returned definition is closed under references: StartAt and
\* every Next name a key of States, and the edges that name an unknown id
\* neither produce nor change any state (dropping them gives the same
\* States).
C9_Closed ==
  (ToASLReturned /\ Len(call.nodes) >= 1) =>
    /\ ret.value.StartAt \in EntryNames(ret.value.States)
    /\ \A i \in DOMAIN ret.value.States :
         HasNext(ret.value.States[i].state)
           => ret.value.States[i].state.Next \in EntryNames(ret.value.States)
    /\ ret.value.States = ConvertToASL(call.nodes, SelectSeq(call.edges, Resolves)).States

\* C9 witness: a node's edge to a known node is followed by an edge from the
\* same node to an unknown id, and the state keeps the Next of the first.
C9_Witness ==
  /\ ToASLReturned /\ Len(call.nodes) >= 2 /\ Len(call.edges) = 2
  /\ Resolves(call.edges[1])
  /\ call.edges[2].source = call.edges[1].source /\ call.edges[2].target \notin CallIds
  /\ GetEntry(ret.value.States, "State_" \o call.edges[1].source).Next
       = "State_" \o call.edges[1].target

\* The Next / End marking of a definition: per state name, which of the
\* two keys are present.
Marking(def) ==
  {<<def.States[i].name, HasNext(def.States[i].state), HasEnd(def.States[i].state)>> :
     i \in DOMAIN def.States}

\* C10: a state has Next and no End exactly when its node is the source of
\* an edge whose two ends are ids of nodes; every other state has End: true
\* and no Next; the marking is the same for every order of the edges.
C10_Marking ==
  (ToASLReturned /\ Len(call.nodes) >= 1) =>
    /\ \A n \in DOMAIN call.nodes :
         LET s   == GetEntry(ret.value.States, "State_" \o call.nodes[n].id)
             src == \E k \in DOMAIN call.edges :
                      call.edges[k].source = call.nodes[n].id /\ Resolves(call.edges[k])
         IN  /\ src => (HasNext(s) /\ ~HasEnd(s))
             /\ ~src => (~HasNext(s) /\ HasEnd(s) /\ s.End = TRUE)
    /\ \A p \in Permutations(DOMAIN call.edges) :
         Marking(ConvertToASL(call.nodes, [k \in DOMAIN call.edges |-> call.edges[p[k]]]))
           = Marking(ret.value)

\* C10 witness: two edges in an order that matters for Next (same source,
\* different known targets), and a node with no outgoing edge.
C10_Witness ==
  /\ ToASLReturned /\ Len(call.nodes) = 3 /\ Len(call.edges) = 2
  /\ call.edges[1].source = call.edges[2].source
  /\ call.edges[1].target # call.edges[2].target
  /\ Resolves(call.edges[1]) /\ Resolves(call.edges[2])
  /\ \E i \in DOMAIN ret.value.States : HasEnd(ret.value.States[i].state)

\* The positions of the edges of the call that leave node id and have both
\* ends among the nodes of the call.
ResolvingFrom(id) ==
  {k \in DOMAIN call.edges : call.edges[k].source = id /\ Resolves(call.edges[k])}

MaxOf(S) == CHOOSE x \in S : \A y \in S : y <= x

\* C11: when a node is the source of several edges that resolve to known
\* nodes, the Next of its state names the target of the last of them in
\* edges order (so an earlier target is referenced only if it is that one).
C11_LastEdgeWins ==
  (ToASLReturned /\ Len(call.nodes) >= 1) =>
    \A n \in DOMAIN call.nodes :
      ResolvingFrom(call.nodes[n].id) # {} =>
        LET s    == GetEntry(ret.value.States, "State_" \o call.nodes[n].id)
            last == call.edges[MaxOf(ResolvingFrom(call.nodes[n].id))]
        IN  HasNext(s) /\ s.Next = "State_" \o last.target

\* C11 witness: two resolving edges leave the same node for different
\* targets, and the state's Next names the second target, not the first.
C11_Witness ==
  /\ ToASLReturned /\ Len(call.edges) = 2
  /\ Resolves(call.edges[1]) /\ Resolves(call.edges[2])
  /\ call.edges[1].source = call.edges[2].source
  /\ call.edges[1].target # call.edges[2].target
  /\ LET s == GetEntry(ret.value.States, "State_" \o call.edges[1].source)
     IN  s.Next = "State_" \o call.edges[2].target /\ s.Next # "State_" \o call.edges[1].target

\* C12: for node ids that are pairwise distinct, States holds exactly one
\* state per node, keyed State_<node.id>, whether or not the node is
\* reachable from the start node or touched by any edge.
C12_OneStatePerNode ==
  (/\ ToASLReturned /\ Len(call.nodes) >= 1
   /\ \A i, j \in DOMAIN call.nodes : i # j => call.nodes[i].id # call.nodes[j].id)
    =>
    /\ Len(ret.value.States) = Len(call.nodes)
    /\ EntryNames(ret.value.States) = {"State_" \o call.nodes[i].id : i \in DOMAIN call.nodes}
    /\ \A i, j \in DOMAIN ret.value.States :
         i # j => ret.value.States[i].name # ret.value.States[j].name

\* C12 witness: three nodes, one edge between the first two, the third node
\* touched by no edge and not reachable from the start node, three states.
C12_Witness ==
  /\ ToASLReturned /\ Len(call.nodes) = 3 /\ Len(call.edges) = 1
  /\ call.edges[1].source = call.nodes[1].id /\ call.edges[1].target = call.nodes[2].id
  /\ ret.value.StartAt = "State_" \o call.nodes[1].id
  /\ HasEntry(ret.value.States, "State_" \o call.nodes[3].id)
  /\ Len(ret.value.States) = 3

\* C26: the returned definition, its StartAt included, is the one returned
\* for the same nodes and only those edges both of whose ends are ids of
\* nodes.
C26_DanglingEdgesIgnored ==
  ToASLReturned =>
    ret.value = ConvertToASL(call.nodes, SelectSeq(call.edges, Resolves))

\* The states of the returned definition are those returned without the
\* dangling edges: only StartAt can differ.
C26_StatesIgnoreDangling ==
  (ToASLReturned /\ ret.value # Null) =>
    ret.value.States = ConvertToASL(call.nodes, SelectSeq(call.edges, Resolves)).States

\* The state kinds a node may claim.
KnownKinds == {"Pass", "Task", "Choice", "Wait", "Succeed", "Fail", "Parallel", "Map"}

\* The kind a node claims, Pass when it claims none or an unknown one.
ClaimedKind(node) ==
  IF "data" \in DOMAIN node /\ "stateType" \in DOMAIN node.data
     /\ node.data.stateType \in KnownKinds
    THEN node.data.stateType
    ELSE "Pass"

\* C20: the Type of each state of the returned definition is the kind its
\* node claims when that is a known kind, and Pass otherwise; a conversion
\* of a non-empty node sequence never fails.
C20_TypeFromKind ==
  (ToASLReturned /\ call.nodes # <<>>) =>
    /\ ret.value # Null
    /\ \A i \in DOMAIN call.nodes :
         /\ HasEntry(ret.value.States, StateName(call.nodes[i].id))
         /\ GetEntry(ret.value.States, StateName(call.nodes[i].id)).Type
              = ClaimedKind(call.nodes[i])

(***************************************************************************)
(* Claims about convertFromASL, checked under SpecFromASL.                 *)
(***************************************************************************)
FromASLReturned == call.fn = "convertFromASL" /\ ret # Pending

\* C6: the call returns null whenever the definition has no States key or
\* no StartAt key, whatever its other fields are.
C6_MissingKeyNull ==
  (FromASLReturned /\ ("States" \notin DOMAIN call.def \/ "StartAt" \notin DOMAIN call.def))
    => ret.value = Null

\* C6 witness: a call returned for a definition with states but no StartAt.
C6_Witness ==
  /\ FromASLReturned
  /\ "StartAt" \notin DOMAIN call.def
  /\ "States" \in DOMAIN call.def /\ Len(call.def.States) >= 2
  /\ ret.value = Null

\* C6, the other case reached: a definition with StartAt and no States.
C6_NoStatesReached ==
  FromASLReturned /\ "States" \notin DOMAIN call.def /\ "StartAt" \in DOMAIN call.def

\* C7: the call returns null when States is present but empty and StartAt
\* is present; it does not return a graph with no nodes and no edges.
C7_EmptyStatesNull ==
  (/\ FromASLReturned
   /\ "States" \in DOMAIN call.def /\ call.def.States = <<>>
   /\ Truthy(call.def, "StartAt"))
    => ret.value = Null

\* What the code returns for C7's input: the graph with no nodes and no edges.
C7_CodeReturnsEmptyGraph ==
  (/\ FromASLReturned
   /\ "States" \in DOMAIN call.def /\ call.def.States = <<>>
   /\ Truthy(call.def, "StartAt"))
    => ret.value = [nodes |-> <<>>, edges |-> <<>>]

\* The call returned a graph.
GraphReturned == FromASLReturned /\ ret.value # Null

\* C15: every edge of the returned graph has a source and a target that are
\* ids of nodes of the returned node sequence, also for definitions with
\* dangling Next, Choices or Default targets.
C15_EdgesResolve ==
  GraphReturned =>
    LET ids == {ret.value.nodes[i].id : i \in DOMAIN ret.value.nodes}
    IN  \A k \in DOMAIN ret.value.edges :
          ret.value.edges[k].source \in ids /\ ret.value.edges[k].target \in ids

\* A state with a target (Next, a choice's Next, Default) that names no
\* state of the definition.
Dangles(def, state) ==
  \/ Truthy(state, "Next") /\ state.Next \notin EntryNames(def.States)
  \/ Truthy(state, "Default") /\ state.Default \notin EntryNames(def.States)
  \/ /\ "Choices" \in DOMAIN state
     /\ \E c \in DOMAIN state.Choices :
          Truthy(state.Choices[c], "Next") /\ state.Choices[c].Next \notin EntryNames(def.States)

\* C15 witness: a graph with edges came back for a definition in which a
\* Pass state and a Choice state have dangling targets.
C15_Witness ==
  /\ GraphReturned
  /\ Len(ret.value.edges) >= 2
  /\ \E i \in DOMAIN call.def.States :
       /\ Dangles(call.def, call.def.States[i].state)
       /\ "Choices" \in DOMAIN call.def.States[i].state
  /\ \E i \in DOMAIN call.def.States :
       /\ Dangles(call.def, call.def.States[i].state)
       /\ "Choices" \notin DOMAIN call.def.States[i].state

\* C16: the returned graph has exactly one node per state, with the
\* pairwise distinct ids node-1, node-2, ..., node-n in the order in which
\* the states are enumerated: the counter starts at 1 on every call.
C16_NodeIds ==
  GraphReturned =>
    /\ Len(ret.value.nodes) = Len(call.def.States)
    /\ \A i \in DOMAIN ret.value.nodes :
         /\ ret.value.nodes[i].id = "node-" \o ToString(i)
         /\ ret.value.nodes[i].data.stateName = call.def.States[i].name
    /\ \A i, j \in DOMAIN ret.value.nodes :
         i # j => ret.value.nodes[i].id # ret.value.nodes[j].id

\* C16 witness: a graph of three nodes, the last of them node-3.
C16_Witness ==
  /\ GraphReturned
  /\ Len(call.def.States) = 3
  /\ ret.value.nodes[1].id = "node-1" /\ ret.value.nodes[3].id = "node-3"

\* The names of the states of the definition passed to the call.
DefNames == EntryNames(call.def.States)

\* The id of the returned node that stands for the state of that name.
NodeOf(name) ==
  (CHOOSE n \in {ret.value.nodes[i] : i \in DOMAIN ret.value.nodes} :
     n.data.stateName = name).id

\* The returned edges that leave the node of the state at position i.
OutEdges(i) ==
  SelectSeq(ret.value.edges, LAMBDA e : e.source = ret.value.nodes[i].id)

\* The state is a Choice state with two Choices entries and a Default, all
\* naming states of the definition.
IsTwoWayChoice(state) ==
  /\ "Type" \in DOMAIN state /\ state.Type = "Choice"
  /\ "Choices" \in DOMAIN state /\ Len(state.Choices) = 2
  /\ \A c \in 1..2 : Truthy(state.Choices[c], "Next") /\ state.Choices[c].Next \in DefNames
  /\ Truthy(state, "Default") /\ state.Default \in DefNames

\* The edge stands for the entry at (1-based) position c of Choices.
IsChoiceEdge(e, state, c) ==
  /\ e.target = NodeOf(state.Choices[c].Next)
  /\ "label" \in DOMAIN e
  /\ e.label = (IF Truthy(state.Choices[c], "Variable")
                  THEN state.Choices[c].Variable
                  ELSE "Choice " \o ToString(c))

\* The edge stands for Default.
IsDefaultEdge(e, state) ==
  /\ e.target = NodeOf(state.Default)
  /\ "label" \in DOMAIN e
  /\ e.label = "Default"

\* Exactly three edges leave the node of the state at position i: one per
\* Choices entry and one for Default.
ThreeWayFanOut(i) ==
  LET state == call.def.States[i].state
      out   == OutEdges(i)
  IN  /\ Len(out) = 3
      /\ \E f \in [1..3 -> 1..3] :
           /\ \A a, b \in 1..3 : a # b => f[a] # f[b]
           /\ IsChoiceEdge(out[f[1]], state, 1)
           /\ IsChoiceEdge(out[f[2]], state, 2)
           /\ IsDefaultEdge(out[f[3]], state)

\* C17 as stated: every Choice state with two Choices entries and a
\* Default, all naming existing states, gets exactly three edges out of its
\* node, labelled with the entry's Variable or "Choice <n>", and "Default".
C17_ChoiceFanOut ==
  GraphReturned =>
    \A i \in DOMAIN call.def.States :
      IsTwoWayChoice(call.def.States[i].state) => ThreeWayFanOut(i)

\* C17 amended: the same for every such Choice state that carries no Next
\* of its own (a Next on the state adds a fourth, unlabelled edge).
C17_ChoiceFanOutWithoutNext ==
  GraphReturned =>
    \A i \in DOMAIN call.def.States :
      (IsTwoWayChoice(call.def.States[i].state)
         /\ ~Truthy(call.def.States[i].state, "Next")) => ThreeWayFanOut(i)

\* C17 witness: a graph came back for a definition with such a Choice
\* state, one of whose entries has no Variable, and three edges leave it.
C17_Witness ==
  /\ GraphReturned
  /\ \E i \in DOMAIN call.def.States :
       /\ IsTwoWayChoice(call.def.States[i].state)
       /\ ~Truthy(call.def.States[i].state, "Next")
       /\ ~Truthy(call.def.States[i].state.Choices[2], "Variable")
       /\ Len(OutEdges(i)) = 3

\* The unlabelled edges among the returned edges that leave node i.
PlainOutEdges(i) ==
  SelectSeq(OutEdges(i), LAMBDA e : "label" \notin DOMAIN e)

\* C18: a definition with States and StartAt always yields a graph with all
\* its nodes; a state whose Next names a state of the definition has exactly
\* one unlabelled edge, from its node to that state's node; a state whose
\* Next names no state of the definition (or that has no Next) has none.
C18_NextEdges ==
  FromASLReturned =>
    /\ ("States" \in DOMAIN call.def /\ Truthy(call.def, "StartAt")) => ret.value # Null
    /\ ret.value # Null =>
         /\ Len(ret.value.nodes) = Len(call.def.States)
         /\ \A i \in DOMAIN call.def.States :
              LET state == call.def.States[i].state
              IN  IF Truthy(state, "Next") /\ state.Next \in DefNames
                    THEN /\ Len(PlainOutEdges(i)) = 1
                         /\ PlainOutEdges(i)[1].target = NodeOf(state.Next)
                    ELSE PlainOutEdges(i) = <<>>

\* C18 witness: a graph came back in which one state's Next dangles and its
\* node has no edge, while another state's Next gave an edge.
C18_Witness ==
  /\ GraphReturned
  /\ \E i, j \in DOMAIN call.def.States :
       /\ Truthy(call.def.States[i].state, "Next")
       /\ call.def.States[i].state.Next \notin DefNames
       /\ OutEdges(i) = <<>>
       /\ Truthy(call.def.States[j].state, "Next")
       /\ Len(PlainOutEdges(j)) = 1

\* C19: each returned node carries the state's name, the state's Type (Pass
\* when the state has none), the state object unchanged, and as label the
\* state's Comment when that is non-empty and the state's name otherwise.
C19_NodeData ==
  GraphReturned =>
    \A i \in DOMAIN ret.value.nodes :
      LET state == call.def.States[i].state
          data  == ret.value.nodes[i].data
      IN  /\ data.stateName = call.def.States[i].name
          /\ data.stateType = (IF "Type" \in DOMAIN state THEN state.Type ELSE "Pass")
          /\ data.fullState = state
          /\ data.label = (IF "Comment" \in DOMAIN state /\ state.Comment # ""
                             THEN state.Comment
                             ELSE call.def.States[i].name)

\* C19 witness: a graph with a node labelled by its state's Comment and a
\* node labelled by its state's name because the Comment is empty.
C19_Witness ==
  /\ GraphReturned
  /\ \E i, j \in DOMAIN ret.value.nodes :
       /\ "Comment" \in DOMAIN call.def.States[i].state
       /\ ret.value.nodes[i].data.label = "first step"
       /\ "Comment" \in DOMAIN call.def.States[j].state
       /\ call.def.States[j].state.Comment = ""
       /\ ret.value.nodes[j].data.label = call.def.States[j].name
       /\ ret.value.nodes[j].data.stateType = "Pass"

\* The labelled edges among the returned edges that leave node i.
LabelledOutEdges(i) ==
  SelectSeq(OutEdges(i), LAMBDA e : "label" \in DOMAIN e)

\* The positions of the Choices entries of the state whose Next names a
\* state of the definition.
KeptChoices(state) ==
  IF "Choices" \in DOMAIN state
    THEN {c \in DOMAIN state.Choices :
            Truthy(state.Choices[c], "Next") /\ state.Choices[c].Next \in DefNames}
    ELSE {}

\* Default names a state of the definition.
KeptDefault(state) == Truthy(state, "Default") /\ state.Default \in DefNames

\* C25: the labelled edges that leave the node of a Choice state are, in
\* order, one per Choices entry whose Next names a state of the definition,
\* labelled with its Variable or with "Choice <n>" for its position n in
\* Choices, followed by one "Default" edge exactly when Default names a
\* state of the definition; the other entries give nothing.
C25_ChoiceEdgesKept ==
  GraphReturned =>
    \A i \in DOMAIN call.def.States :
      LET state == call.def.States[i].state
          out   == LabelledOutEdges(i)
          kept  == KeptChoices(state)
          n     == Cardinality(kept)
      IN  ("Type" \in DOMAIN state /\ state.Type = "Choice") =>
            /\ Len(out) = n + (IF KeptDefault(state) THEN 1 ELSE 0)
            /\ \A c \in kept :
                 IsChoiceEdge(out[Cardinality({b \in kept : b <= c})], state, c)
            /\ KeptDefault(state) => IsDefaultEdge(out[n + 1], state)

\* C25 witness: a graph came back for a Choice state whose first entry has
\* no Next, whose second entry and Default dangle, and whose third entry
\* gave the only labelled edge, "Choice 3".
C25_Witness ==
  /\ GraphReturned
  /\ \E i \in DOMAIN call.def.States :
       LET state == call.def.States[i].state
       IN  /\ "Choices" \in DOMAIN state
           /\ KeptChoices(state) = {3}
           /\ ~KeptDefault(state) /\ Truthy(state, "Default")
           /\ Len(LabelledOutEdges(i)) = 1
           /\ LabelledOutEdges(i)[1].label = "Choice 3"

\* C29: the ids of the edges of a returned graph are pairwise distinct.
C29_EdgeIdsDistinct ==
  GraphReturned =>
    \A a, b \in DOMAIN ret.value.edges :
      a # b => ret.value.edges[a].id # ret.value.edges[b].id

\* C29 witness: a graph came back in which four edges leave one node for
\* one target: the edge of Next, two choice edges and the Default edge.
C29_Witness ==
  /\ GraphReturned
  /\ \E i \in DOMAIN call.def.States :
       /\ Len(OutEdges(i)) = 4
       /\ Len(PlainOutEdges(i)) = 1
       /\ \A k \in 1..4 : OutEdges(i)[k].target = OutEdges(i)[1].target
       /\ OutEdges(i)[4].label = "Default"

(***************************************************************************)
(* Claims about the round trip, checked under SpecRoundTrip.               *)
(***************************************************************************)
RoundTripDone == call.fn = "roundTrip" /\ ret # Pending /\ "back" \in DOMAIN ret

\* The orders in which the states of a definition form one linear chain:
\* each state's Next names the following one, the last has End and no Next.
ChainOrders(def) ==
  {p \in Permutations(DOMAIN def.States) :
     /\ \A k \in DOMAIN def.States :
          IF k < Len(def.States)
            THEN /\ "Next" \in DOMAIN def.States[p[k]].state
                 /\ def.States[p[k]].state.Next = def.States[p[k + 1]].name
                 /\ "End" \notin DOMAIN def.States[p[k]].state
            ELSE /\ "Next" \notin DOMAIN def.States[p[k]].state
                 /\ "End" \in DOMAIN def.States[p[k]].state}

\* A definition of Pass states only that form a single linear Next chain
\* ending in one End state.
IsPassChain(def) ==
  /\ "States" \in DOMAIN def /\ Truthy(def, "StartAt")
  /\ Len(def.States) >= 1
  /\ \A i \in DOMAIN def.States :
       "Type" \in DOMAIN def.States[i].state /\ def.States[i].state.Type = "Pass"
  /\ ChainOrders(def) # {}

\* The name of the state that the round trip builds for the state at
\* position i of the definition.
BackName(i) == "State_node-" \o ToString(i)

\* C14: for a definition of Pass states forming one linear chain, the round
\* trip yields as many states, whose Next links form a path that visits the
\* states in the order of the chain, and whose only End state is the one
\* built for the chain's terminal state.
C14_RoundTripChain ==
  (RoundTripDone /\ IsPassChain(call.def)) =>
    /\ ret.back # Null
    /\ Len(ret.back.States) = Len(call.def.States)
    /\ \A p \in ChainOrders(call.def) :
         \A k \in DOMAIN call.def.States :
           /\ HasEntry(ret.back.States, BackName(p[k]))
           /\ LET s == GetEntry(ret.back.States, BackName(p[k]))
              IN  IF k < Len(call.def.States)
                    THEN "Next" \in DOMAIN s /\ s.Next = BackName(p[k + 1]) /\ "End" \notin DOMAIN s
                    ELSE "Next" \notin DOMAIN s /\ "End" \in DOMAIN s /\ s.End = TRUE

\* C14 witness: a chain of three states whose order is not the order in
\* which the definition lists them has gone through the round trip.
C14_Witness ==
  /\ RoundTripDone /\ IsPassChain(call.def)
  /\ Len(call.def.States) = 3
  /\ "Next" \notin DOMAIN call.def.States[1].state
  /\ Len(ret.back.States) = 3
  /\ "End" \in DOMAIN GetEntry(ret.back.States, BackName(1))


StartPosition(def) ==
  CHOOSE i \in DOMAIN def.States : def.States[i].name = def.StartAt

\* C28: for a definition of Pass states forming one linear chain whose
\* StartAt names one of its states, the StartAt of the round trip is the
\* state built from the node created for that state.
C28_StartPreserved ==
  (RoundTripDone /\ IsPassChain(call.def) /\ call.def.StartAt \in EntryNames(call.def.States)) =>
    /\ ret.back # Null
    /\ ret.back.StartAt = BackName(StartPosition(call.def))

\* What the code does: the StartAt of the round trip is the state built for
\* the head of the chain, whatever StartAt named.
C28_StartIsChainHead ==
  (RoundTripDone /\ IsPassChain(call.def)) =>
    /\ ret.back # Null
    /\ \A p \in ChainOrders(call.def) : ret.back.StartAt = BackName(p[1])


(***************************************************************************)
(* Claims about pollExecutionStatus, checked under FairSpecPoll.           *)
(***************************************************************************)
\* What one step of a polling run may do.
PollStep ==
  /\ poll'.phase = "scheduled" =>
       (poll.phase = "waiting" /\ poll'.last = "RUNNING" /\ poll.attempts < maxAttempts)
  /\ poll'.requests # poll.requests =>
       (poll.phase = "scheduled" /\ poll'.requests = poll.requests + 1)
  /\ (poll.phase = "waiting" /\ poll'.last # "RUNNING") => poll'.phase = "done"
  /\ poll.phase = "done" => poll' = poll
  /\ poll'.refreshes =
       (IF poll.phase = "waiting" /\ poll'.phase = "done" /\ poll'.last \in Statuses
          THEN poll.refreshes + 1
          ELSE poll.refreshes)

\* C30: a polling run issues at most maxAttempts + 1 status requests and
\* schedules at most maxAttempts re-polls; it schedules a re-poll only after
\* an OK response with status RUNNING while attempts < maxAttempts; it
\* stops on a response that is not OK, on a throw and on any other status;
\* it refreshes the history exactly when it stops on an OK response, so at
\* most once; and it does stop.
C30_PollingTerminates ==
  /\ [](poll.requests <= maxAttempts + 1 /\ poll.attempts <= maxAttempts /\ poll.refreshes <= 1)
  /\ [][PollStep]_vars
  /\ <>(poll.phase = "done")

\* C30 witness: the run stopped after maxAttempts + 1 requests that all
\* answered RUNNING, and refreshed the history once.
C30_Witness ==
  /\ poll.phase = "done"
  /\ poll.requests = maxAttempts + 1
  /\ poll.last = "RUNNING"
  /\ poll.refreshes = 1

\* The run stopped on a throw after some re-polls, without a refresh.
C30_ThrowReached ==
  /\ poll.phase = "done"
  /\ poll.last = "throws"
  /\ poll.requests = 3
  /\ poll.refreshes = 0

====
